---- MODULE Spec2Model ----
(***************************************************************************)
(* A model of lib/abbrev_matcher.py (class AbbrevMatcher).                 *)
(*                                                                         *)
(* A Python str is modelled as a sequence of characters, each character a  *)
(* one-character TLA+ string.  The abbreviation index (self.data, an       *)
(* insertion-ordered dict) is a sequence of entries [abbrev, lvs] in       *)
(* insertion order.                                                        *)
(*                                                                         *)
(* cfg and data are the matcher's attributes, call is the last call made   *)
(* on it (what it was given, what it returned or raised, the index before  *)
(* it) and ncalls the number of calls so far.  twin is a second matcher     *)
(* that is given the same calls, and run is a call of match_abbrevs or      *)
(* replace_abbrevs in progress, one loop iteration at a time.               *)
(***************************************************************************)
EXTENDS Integers, Sequences, FiniteSets, TLC

VARIABLES cfg, data, call, ncalls, twin, run

vars == <<cfg, data, call, ncalls, twin, run>>

(***************************************************************************)
(* Characters and the str methods the matcher uses                          *)
(***************************************************************************)
Uppers ==
  <<"A","B","C","D","E","F","G","H","I","J","K","L","M",
    "N","O","P","Q","R","S","T","U","V","W","X","Y","Z">>

Lowers ==
  <<"a","b","c","d","e","f","g","h","i","j","k","l","m",
    "n","o","p","q","r","s","t","u","v","w","x","y","z">>

Digits == {"0","1","2","3","4","5","6","7","8","9"}

\* what str.strip() removes and what \s matches
Whitespace == {" ", "\t", "\n", "\r"}

\* string.punctuation; the grave accent is written "U+0060"
Punctuation ==
  {"!", "\"", "#", "$", "%", "&", "'", "(", ")", "*", "+", ",", "-", ".", "/",
   ":", ";", "<", "=", ">", "?", "@", "[", "\\", "]", "^", "_", "U+0060", "{", "|",
   "}", "~"}

IsUpperCh(c) == \E i \in 1..26 : Uppers[i] = c

IsLowerCh(c) == \E i \in 1..26 : Lowers[i] = c

\* str.isalpha() of one character
IsAlphaCh(c) == IsUpperCh(c) \/ IsLowerCh(c)

\* \w of the re module: letters, digits and the underscore
IsWordCh(c) == IsAlphaCh(c) \/ c \in Digits \/ c = "_"

\* str.lower() of one character
LowerCh(c) ==
  IF IsUpperCh(c) THEN Lowers[CHOOSE i \in 1..26 : Uppers[i] = c] ELSE c

\* str.lower()
Lower(s) == [i \in 1..Len(s) |-> LowerCh(s[i])]

\* str.islower(): at least one cased character and no upper-case one
IsLowerStr(s) ==
  /\ \E i \in 1..Len(s) : IsLowerCh(s[i])
  /\ \A i \in 1..Len(s) : ~IsUpperCh(s[i])

\* sub in s, for Python strings
Contains(s, sub) ==
  \E i \in 1..(Len(s) - Len(sub) + 1) : SubSeq(s, i, i + Len(sub) - 1) = sub

\* s.lstrip(chars)
LStrip(s, chars) ==
  LET keep == {i \in 1..Len(s) : s[i] \notin chars}
  IN  IF keep = {} THEN <<>>
      ELSE SubSeq(s, CHOOSE i \in keep : \A j \in keep : i <= j, Len(s))

\* s.rstrip(chars)
RStrip(s, chars) ==
  LET keep == {i \in 1..Len(s) : s[i] \notin chars}
  IN  IF keep = {} THEN <<>>
      ELSE SubSeq(s, 1, CHOOSE i \in keep : \A j \in keep : i >= j)

\* s.strip(chars)
Strip(s, chars) == LStrip(RStrip(s, chars), chars)

\* s.endswith(suffix)
EndsWith(s, suffix) ==
  /\ Len(suffix) <= Len(s)
  /\ SubSeq(s, Len(s) - Len(suffix) + 1, Len(s)) = suffix

RECURSIVE Reverse(_)
\* reversed(list)
Reverse(l) == IF l = <<>> THEN <<>> ELSE Append(Reverse(Tail(l)), Head(l))

RECURSIVE Join(_, _)
\* sep.join(list)
Join(sep, l) ==
  IF l = <<>> THEN <<>>
  ELSE IF Len(l) = 1 THEN l[1]
  ELSE l[1] \o sep \o Join(sep, Tail(l))

RECURSIVE SplitOn(_, _)
\* re.split('[<delims>]', s): one cut per delimiter character, so two
\* adjacent delimiters leave an empty token between them
SplitOn(s, delims) ==
  LET cut == {i \in 1..Len(s) : s[i] \in delims}
  IN  IF cut = {} THEN <<s>>
      ELSE LET i == CHOOSE k \in cut : \A j \in cut : k <= j
           IN  <<SubSeq(s, 1, i - 1)>> \o SplitOn(SubSeq(s, i + 1, Len(s)), delims)

\* str.split(): cut on runs of whitespace, no empty token
SplitWs(s) == SelectSeq(SplitOn(s, Whitespace), LAMBDA t : t # <<>>)

\* s.replace(old, new, 1): the first occurrence only
Replace_first(s, old, new) ==
  LET hits == {i \in 1..(Len(s) - Len(old) + 1) :
                 SubSeq(s, i, i + Len(old) - 1) = old}
  IN  IF hits = {} THEN s
      ELSE LET i == CHOOSE k \in hits : \A j \in hits : k <= j
           IN  SubSeq(s, 1, i - 1) \o new \o SubSeq(s, i + Len(old), Len(s))

RECURSIVE Replace(_, _, _)
\* s.replace(old, new), old non-empty: left to right, non-overlapping
Replace(s, old, new) ==
  LET hits == {i \in 1..(Len(s) - Len(old) + 1) :
                 SubSeq(s, i, i + Len(old) - 1) = old}
  IN  IF hits = {} THEN s
      ELSE LET i == CHOOSE k \in hits : \A j \in hits : k <= j
           IN  SubSeq(s, 1, i - 1) \o new
                 \o Replace(SubSeq(s, i + Len(old), Len(s)), old, new)

(***************************************************************************)
(* AbbrevMatcher                                                            *)
(***************************************************************************)
\* defaults of __init__
DefaultMinLen == 2

DefaultMaxLen == 4

DefaultLongVersionMax == 7

\* longest long version prefilter_long_version lets through
LongVersionMaxChars == 50

\* most punctuation characters prefilter_long_version lets through
LongVersionMaxPunct == 2

\* walk position from which the token right before the bracket is trusted
FallbackPos == 7

\* stopwords of match_abbrevs
Stopwords == {<<"a","n","d">>, <<"a","l","s","o">>}

\* prefilter_candidate with the upper length bound taken as exclusive
prefilter_candidate_exclusive_max(c, abbrev_candidate) ==
  /\ c.min_len <= Len(abbrev_candidate)
  /\ Len(abbrev_candidate) < c.max_len
  /\ \A i \in 1..Len(abbrev_candidate) : abbrev_candidate[i] # "="
  /\ \E i \in 1..Len(abbrev_candidate) : IsAlphaCh(abbrev_candidate[i])
  /\ ~IsLowerStr(abbrev_candidate)
  /\ abbrev_candidate \notin c.abbrev_exclude

\* prefilter_candidate without the look-up in abbrev_exclude
prefilter_candidate_no_exclude(c, abbrev_candidate) ==
  /\ c.min_len <= Len(abbrev_candidate)
  /\ Len(abbrev_candidate) <= c.max_len
  /\ \A i \in 1..Len(abbrev_candidate) : abbrev_candidate[i] # "="
  /\ \E i \in 1..Len(abbrev_candidate) : IsAlphaCh(abbrev_candidate[i])
  /\ ~IsLowerStr(abbrev_candidate)

\* prefilter_candidate(abbrev_candidate)
prefilter_candidate(c, abbrev_candidate) ==
  IF ~(c.min_len <= Len(abbrev_candidate) /\ Len(abbrev_candidate) <= c.max_len)
    THEN FALSE
  ELSE IF \E i \in 1..Len(abbrev_candidate) : abbrev_candidate[i] = "="
    THEN FALSE
  ELSE IF ~(\E i \in 1..Len(abbrev_candidate) : IsAlphaCh(abbrev_candidate[i]))
    THEN FALSE
  ELSE IF IsLowerStr(abbrev_candidate)
    THEN FALSE
  ELSE IF abbrev_candidate \in c.abbrev_exclude
    THEN FALSE
  ELSE TRUE

\* number of punctuation characters of a string
NumPunctChars(s) == Cardinality({i \in 1..Len(s) : s[i] \in Punctuation})

\* prefilter_long_version rejecting a long version of LongVersionMaxChars too
prefilter_long_version_at_max(long_version_candidate, abbrev_candidate) ==
  /\ Len(long_version_candidate) < LongVersionMaxChars
  /\ ~Contains(long_version_candidate, <<" ", ".">>)
  /\ NumPunctChars(long_version_candidate) <= LongVersionMaxPunct
  /\ ~Contains(Lower(long_version_candidate), Lower(abbrev_candidate))
  /\ \A i \in 1..Len(abbrev_candidate) :
       Contains(Lower(long_version_candidate), <<LowerCh(abbrev_candidate[i])>>)

\* prefilter_long_version without the rule that every character of the
\* abbreviation is in the long version
prefilter_long_version_no_chars(long_version_candidate, abbrev_candidate) ==
  /\ Len(long_version_candidate) <= LongVersionMaxChars
  /\ ~Contains(long_version_candidate, <<" ", ".">>)
  /\ NumPunctChars(long_version_candidate) <= LongVersionMaxPunct
  /\ ~Contains(Lower(long_version_candidate), Lower(abbrev_candidate))

\* prefilter_long_version(long_version_candidate, abbrev_candidate)
prefilter_long_version(long_version_candidate, abbrev_candidate) ==
  IF Len(long_version_candidate) > LongVersionMaxChars
    THEN FALSE
  ELSE IF Contains(long_version_candidate, <<" ", ".">>)
    THEN FALSE
  ELSE IF NumPunctChars(long_version_candidate) > LongVersionMaxPunct
    THEN FALSE
  ELSE IF Contains(Lower(long_version_candidate), Lower(abbrev_candidate))
    THEN FALSE
  ELSE IF ~(\A i \in 1..Len(abbrev_candidate) :
              Contains(Lower(long_version_candidate),
                       <<LowerCh(abbrev_candidate[i])>>))
    THEN FALSE
  ELSE TRUE

\* set(f(lv) for lv in long_version_list)
SetOf(l) == {l[i] : i \in 1..Len(l)}

\* the loop of filter_long_version_list over long_version_list[i..],
\* lv_list being what it has collected so far
RECURSIVE FilterLoop(_, _, _, _)
FilterLoop(long_version_list, abbrev_candidate, i, lv_list) ==
  IF i > Len(long_version_list)
    THEN (IF lv_list # <<>> THEN lv_list ELSE long_version_list)
  ELSE
    LET lv == long_version_list[i]
        toks == SplitWs(lv)
        lv_starts == {LowerCh(toks[k][1]) : k \in 1..Len(toks)}
    IN  IF \A k \in 1..Len(abbrev_candidate) :
             LowerCh(abbrev_candidate[k]) \in lv_starts
          THEN Append(lv_list, lv)
        ELSE IF \A k \in 1..Len(lv) : lv[k] \notin Punctuation
          THEN FilterLoop(long_version_list, abbrev_candidate, i + 1,
                          Append(lv_list, lv))
        ELSE FilterLoop(long_version_list, abbrev_candidate, i + 1, lv_list)

\* filter_long_version_list(long_version_list, abbrev_candidate)
filter_long_version_list(long_version_list, abbrev_candidate) ==
  IF Cardinality(SetOf([i \in 1..Len(long_version_list) |->
                          Lower(long_version_list[i])])) = 1
    THEN <<long_version_list[1]>>
  ELSE IF Cardinality(SetOf([i \in 1..Len(long_version_list) |->
                  Strip(Lower(long_version_list[i]), {"g","e","n"})])) = 1
    THEN SelectSeq(long_version_list,
                   LAMBDA lv : ~EndsWith(lv, <<"g","e","n","e">>))
  ELSE FilterLoop(long_version_list, abbrev_candidate, 1, <<>>)

\* end (inclusive) of the match of bracket_match that starts at i, 0 if none:
\* \s? \( [^\)^\(\)]+ \) [^\w]
MatchEnd(text, i) ==
  LET n == Len(text)
      p == IF text[i] \in Whitespace THEN i + 1 ELSE i
      stops == {k \in (p + 1)..n : text[k] \in {")", "^", "("}}
      q == IF stops = {} THEN 0
           ELSE CHOOSE k \in stops : \A j \in stops : k <= j
  IN  IF /\ p <= n
         /\ text[p] = "("
         /\ q > p + 1
         /\ text[q] = ")"
         /\ q + 1 <= n
         /\ ~IsWordCh(text[q + 1])
      THEN q + 1
      ELSE 0

\* bracket_match.finditer(text) from position i on: the matches <<start, end>>,
\* leftmost first, each search resuming after the previous match
RECURSIVE FindIter(_, _)
FindIter(text, i) ==
  LET starts == {k \in i..Len(text) : MatchEnd(text, k) # 0}
  IN  IF starts = {} THEN <<>>
      ELSE LET k == CHOOSE a \in starts : \A b \in starts : a <= b
           IN  <<(<<k, MatchEnd(text, k)>>)>> \o FindIter(text, MatchEnd(text, k) + 1)

\* m.group().strip().rstrip(string.punctuation).rstrip(')').lstrip('(')
CandidateOf(group) ==
  LStrip(RStrip(RStrip(Strip(group, Whitespace), Punctuation), {")"}), {"("})

\* w[0].lower(), None when w is empty
FirstBeforeStart(w) == IF w = <<>> THEN "None" ELSE LowerCh(w[1])

\* WalkIter without the eight-token fallback of lines 154-156
WalkIter_no_fallback(c, rev, start_char, pos, ex_list) ==
  LET w == rev[pos + 1]
      w_test == Strip(w, Punctuation)
      matched == LowerCh(w_test[1]) = LowerCh(start_char)
      ex1 == IF matched THEN Append(ex_list, w) ELSE ex_list
  IN  IF pos = 0 THEN [ex |-> Append(ex_list, w), brk |-> FALSE]
      ELSE IF w_test = <<>> THEN [ex |-> ex_list, brk |-> FALSE]
      ELSE IF matched /\ Lower(w) \notin Stopwords
        THEN [ex |-> ex1, brk |-> TRUE]
      ELSE IF pos = Len(rev) - 1
        THEN [ex |-> IF pos <= c.long_version_max THEN <<rev[1]>> ELSE <<>>,
              brk |-> FALSE]
      ELSE [ex |-> Append(ex1, w), brk |-> FALSE]

\* one iteration of the token walk of match_abbrevs, at position pos
\* (0-based) with ex_list as accumulated so far: the ex_list it leaves and
\* whether it breaks out of the loop
WalkIter(c, rev, start_char, pos, ex_list) ==
  LET w == rev[pos + 1]
      w_test == Strip(w, Punctuation)
      matched == LowerCh(w_test[1]) = LowerCh(start_char)
      ex1 == IF matched THEN Append(ex_list, w) ELSE ex_list
  IN  IF pos = 0 THEN [ex |-> Append(ex_list, w), brk |-> FALSE]
      ELSE IF w_test = <<>> THEN [ex |-> ex_list, brk |-> FALSE]
      ELSE IF matched /\ Lower(w) \notin Stopwords
        THEN [ex |-> ex1, brk |-> TRUE]
      ELSE IF pos >= FallbackPos
              /\ FirstBeforeStart(rev[1]) = LowerCh(start_char)
        THEN [ex |-> <<rev[1]>>, brk |-> TRUE]
      ELSE IF pos = Len(rev) - 1
        THEN [ex |-> IF pos <= c.long_version_max THEN <<rev[1]>> ELSE <<>>,
              brk |-> FALSE]
      ELSE [ex |-> Append(ex1, w), brk |-> FALSE]

\* the token walk of match_abbrevs from position pos (0-based) on, ex_list
\* being what is accumulated so far; the result is the final ex_list
RECURSIVE Walk(_, _, _, _, _)
Walk(c, rev, start_char, pos, ex_list) ==
  IF pos > Len(rev) - 1 THEN ex_list
  ELSE LET it == WalkIter(c, rev, start_char, pos, ex_list)
       IN  IF it.brk THEN it.ex
           ELSE Walk(c, rev, start_char, pos + 1, it.ex)

\* reversed(re.split('[\/\s-]', text_string[:abbrev_offset])), abbrev_offset
\* being the position of the first character of the match
PreStringList(text_string, abbrev_offset) ==
  Reverse(SplitOn(SubSeq(text_string, 1, abbrev_offset - 1),
                  Whitespace \cup {"/", "-"}))

\* the ex_list match_abbrevs builds for the match that starts at abbrev_offset
ExList(c, text_string, abbrev_offset, abbrev_candidate) ==
  Walk(c, PreStringList(text_string, abbrev_offset), abbrev_candidate[1], 0,
       <<>>)

\* LongVersion without reversed(): the tokens in walk order
LongVersion_walk_order(ex_list) == Strip(Join(<<" ">>, ex_list), Punctuation)

\* LongVersion stripping punctuation at the end only
LongVersion_rstrip(ex_list) ==
  RStrip(Join(<<" ">>, Reverse(ex_list)), Punctuation)

\* ' '.join(reversed(ex_list)).strip(string.punctuation)
LongVersion(ex_list) == Strip(Join(<<" ">>, Reverse(ex_list)), Punctuation)

\* abbrev in self.data
HasKey(d, abbrev) == \E i \in 1..Len(d) : d[i].abbrev = abbrev

\* Record assigning the list anew for a key that is there already
Record_overwrite(d, abbrev, long_version) ==
  IF ~(\E i \in 1..Len(d) : d[i].abbrev = abbrev)
    THEN Append(d, [abbrev |-> abbrev, lvs |-> <<long_version>>])
  ELSE [i \in 1..Len(d) |->
          IF d[i].abbrev = abbrev
            THEN [d[i] EXCEPT !.lvs = <<long_version>>]
            ELSE d[i]]

\* the update of self.data at the end of one iteration of match_abbrevs
Record(d, abbrev, long_version) ==
  IF ~HasKey(d, abbrev)
    THEN Append(d, [abbrev |-> abbrev, lvs |-> <<long_version>>])
  ELSE [i \in 1..Len(d) |->
          IF d[i].abbrev = abbrev
            THEN [d[i] EXCEPT !.lvs = Append(@, long_version)]
            ELSE d[i]]

\* one iteration of the finditer loop of match_abbrevs, for the match m
MatchOne(c, d, text_string, m) ==
  LET abbrev_candidate == CandidateOf(SubSeq(text_string, m[1], m[2]))
      ex_list == ExList(c, text_string, m[1], abbrev_candidate)
      long_version == LongVersion(ex_list)
  IN  IF ~prefilter_candidate(c, abbrev_candidate) THEN d
      ELSE IF ex_list = <<>> THEN d
      ELSE IF ~prefilter_long_version(long_version, abbrev_candidate) THEN d
      ELSE Record(d, abbrev_candidate, long_version)

\* the finditer loop of match_abbrevs over the matches ms
RECURSIVE MatchLoop(_, _, _, _)
MatchLoop(c, d, text_string, ms) ==
  IF ms = <<>> THEN d
  ELSE MatchLoop(c, MatchOne(c, d, text_string, Head(ms)), text_string, Tail(ms))

\* match_abbrevs(text_string): self.data afterwards
match_abbrevs(c, d, text_string) ==
  MatchLoop(c, d, text_string, FindIter(text_string, 1))

\* Chosen taking the last-seen long version of a merged key
Chosen_last(long_versions, abbrev) ==
  IF Cardinality({Lower(long_versions[i]) : i \in 1..Len(long_versions)}) = 1
    THEN long_versions[Len(long_versions)]
  ELSE LET filtered_long_versions ==
             filter_long_version_list(long_versions, abbrev)
       IN  IF Len(filtered_long_versions) = 1
             THEN filtered_long_versions[1]
             ELSE long_versions[1]

\* the long version replace_abbrevs puts in for abbrev
Chosen(long_versions, abbrev) ==
  IF Cardinality(SetOf([i \in 1..Len(long_versions) |->
                          Lower(long_versions[i])])) = 1
    THEN long_versions[1]
  ELSE LET filtered_long_versions ==
             filter_long_version_list(long_versions, abbrev)
       IN  IF Len(filtered_long_versions) = 1
             THEN filtered_long_versions[1]
             ELSE long_versions[1]

\* the loop of replace_abbrevs over self.data.items() from entry i on
RECURSIVE ReplaceLoop(_, _, _)
ReplaceLoop(d, instring, i) ==
  IF i > Len(d) THEN instring
  ELSE ReplaceLoop(d,
                   Replace(instring, d[i].abbrev, Chosen(d[i].lvs, d[i].abbrev)),
                   i + 1)

\* replace_abbrevs replacing only the keys that stand in brackets in instring
replace_abbrevs_bracketed(d, instring) ==
  ReplaceLoop(SelectSeq(d, LAMBDA e :
                Contains(instring, <<"(">> \o e.abbrev \o <<")">>)),
              instring, 1)

\* replace_abbrevs(instring), instring not None: the string returned, d being
\* self.data after its call of match_abbrevs
replace_abbrevs(d, instring) == ReplaceLoop(d, instring, 1)

\* f.readlines(): the lines of a file, each with its line break
RECURSIVE ReadLines(_)
ReadLines(content) ==
  LET brk == {i \in 1..Len(content) : content[i] = "\n"}
  IN  IF content = <<>> THEN <<>>
      ELSE IF brk = {} THEN <<content>>
      ELSE LET i == CHOOSE k \in brk : \A j \in brk : k <= j
           IN  <<SubSeq(content, 1, i)>>
                 \o ReadLines(SubSeq(content, i + 1, Len(content)))

\* the loop of extract_from_file over the lines f_lines
RECURSIVE ExtractLoop(_, _, _)
ExtractLoop(c, d, f_lines) ==
  IF f_lines = <<>> THEN d
  ELSE ExtractLoop(c, match_abbrevs(c, d, Head(f_lines)), Tail(f_lines))

\* extract_from_file handing the whole file to match_abbrevs at once
extract_from_file_whole(c, d, content) == match_abbrevs(c, d, content)

\* extract_from_file(file_path): self.data afterwards, content being what
\* the file holds
extract_from_file(c, d, content) == ExtractLoop(c, d, ReadLines(content))

\* clear_cache leaving the index as it is
clear_cache_keep(d) == d

\* clear_cache(): self.data afterwards
clear_cache(d) == <<>>

\* the keys of d for which replace_abbrevs takes the else branch of line 195:
\* not merged, and narrowed to none or to several long versions
Ambiguous(d) ==
  LET amb == SelectSeq(d, LAMBDA e :
               /\ Cardinality(SetOf([k \in 1..Len(e.lvs) |->
                                       Lower(e.lvs[k])])) # 1
               /\ Len(filter_long_version_list(e.lvs, e.abbrev)) # 1)
  IN  [i \in 1..Len(amb) |-> amb[i].abbrev]

\* what replace_abbrevs prints: the ambiguous keys, under debug only
Printed(c, d) == IF c.debug THEN Ambiguous(d) ELSE <<>>

\* Raised with the raise of line 200 in force under debug
Raised_under_debug(c, d) ==
  IF c.debug /\ Ambiguous(d) # <<>> THEN "ValueError" ELSE ""

\* what replace_abbrevs raises for a str: nothing, the raise of line 200
\* being commented out
Raised(c, d) == ""

\* what a call leaves behind: self.data, the value returned, the exception
\* raised ("" for none) and what was printed under debug
Outcome(d, ret, exc, printed) ==
  [data |-> d, ret |-> ret, exc |-> exc, printed |-> printed]

\* Python's None
None == <<"None">>

\* a call match_abbrevs(text_string); finditer raises TypeError on None
MatchCall(c, d, text_string) ==
  IF text_string = None THEN Outcome(d, None, "TypeError", <<>>)
  ELSE LET d1 == match_abbrevs(c, d, text_string)
       IN  Outcome(d1, d1, "", <<>>)

\* a call replace_abbrevs(instring)
ReplaceCall(c, d, instring) ==
  IF instring = None THEN Outcome(d, None, "", <<>>)
  ELSE LET d1 == match_abbrevs(c, d, instring)
       IN  Outcome(d1, replace_abbrevs(d1, instring), Raised(c, d1),
                   Printed(c, d1))

\* a call extract_from_file(file_path) on a file that holds content
ExtractCall(c, d, content) ==
  LET d1 == extract_from_file(c, d, content)
  IN  Outcome(d1, d1, "", <<>>)

\* a call clear_cache()
ClearCall(c, d) == Outcome(clear_cache(d), None, "", <<>>)

\* a call extract_from_collection_files(in_dir, doc_ids), listing being
\* os.listdir(in_dir): the first document selected is handed to
\* self.process_file, an attribute the class does not have
CollectionCall(c, d, listing, doc_ids) ==
  LET filenames ==
        IF doc_ids = <<>>
          THEN SelectSeq(listing,
                         LAMBDA f : EndsWith(f.name, <<".","t","x","t">>))
          ELSE doc_ids
  IN  IF filenames = <<>> THEN Outcome(d, d, "", <<>>)
      ELSE Outcome(d, None, "AttributeError", <<>>)

(***************************************************************************)
(* Inputs                                                                   *)
(***************************************************************************)
\* calls made on one matcher
MaxCalls == 2

\* longest candidate handed to prefilter_candidate on its own
MaxCandLen == 5

\* longest long version handed to prefilter_long_version on its own
MaxLongLen == 5

\* how far beyond LongVersionMaxChars the padded long versions go
MaxOver == 2

W_Interleukin == <<"I","n","t","e","r","l","e","u","k","i","n">>

W_interleukin == <<"i","n","t","e","r","l","e","u","k","i","n">>

W_IL6 == <<"I","L","6">>

W_AB == <<"A","B">>

W_DNA == <<"D","N","A">>

W_is_elevated == <<" ","i","s"," ","e","l","e","v","a","t","e","d",".">>

\* "Interleukin 6 (IL6) is elevated."
T_IL6 == W_Interleukin \o <<" ","6"," ","(">> \o W_IL6 \o <<")">> \o W_is_elevated

\* "interleukin 6 (IL6), IL6R"
T_il6 == W_interleukin \o <<" ","6"," ","(">> \o W_IL6
           \o <<")",","," ">> \o W_IL6 \o <<"R">>

\* "ba (AB) CABS"
T_ba == <<"b","a"," ","(","A","B",")"," ","C","A","B","S">>

\* "a b (AB)."
T_a_b == <<"a"," ","b"," ","(","A","B",")",".">>

\* "AB x"
T_AB_x == <<"A","B"," ","x">>

\* " foo bar (OB) "
T_foo_bar == <<" ","f","o","o"," ","b","a","r"," ","(","O","B",")"," ">>

\* "ob and also (OA) "
T_also == <<"o","b"," ","a","n","d"," ","a","l","s","o"," ","(","O","A",")"," ">>

\* "a b (ab), a=b (A=B), (b) "
T_reject == <<"a"," ","b"," ","(","a","b",")",","," ","a","=","b"," ",
              "(","A","=","B",")",","," ","(","b",")"," ">>

\* "ba (AB) ob (BO) "
T_two == <<"b","a"," ","(","A","B",")"," ","o","b"," ","(","B","O",")"," ">>

\* "and acid (DNA)."
T_DNA == <<"a","n","d"," ","a","c","i","d"," ","(","D","N","A",")",".">>

\* "x  ab x a x a x ab (BA).", two blanks after the first word
T_wide == <<"x"," "," ","a","b"," ","x"," ","a"," ","x"," ","a"," ","x"," ",
            "a","b"," ","(","B","A",")",".">>

\* ""
T_empty == <<>>

\* "bBOa (AB) bx o (BO)."
T_AB_BO == <<"b","B","O","a"," ","(","A","B",")"," ","b","x"," ","o"," ",
             "(","B","O",")",".">>

\* "bx o (BO) bBOa (AB)."
T_BO_AB == <<"b","x"," ","o"," ","(","B","O",")"," ","b","B","O","a"," ",
             "(","A","B",")",".">>

\* the texts handed to match_abbrevs and replace_abbrevs
Texts ==
  {T_IL6, T_il6, T_ba, T_a_b, T_AB_x, T_foo_bar, T_also, T_reject, T_two, T_DNA,
   T_wide, T_empty, T_AB_BO, T_BO_AB}

F_IL6 == T_IL6 \o <<"\n">> \o T_il6 \o <<"\n">>

F_AB == T_ba \o <<"\n">> \o T_a_b

F_two == <<"\n">> \o T_AB_x \o <<"\n">> \o T_two \o <<"\n">>

\* the contents of the files handed to extract_from_file
Files == {F_IL6, F_AB, F_two}

\* the directories handed to extract_from_collection_files, as os.listdir
\* gives them
Listings ==
  {<<>>,
   <<[name |-> <<"a",".","t","x","t">>, content |-> F_AB]>>,
   <<[name |-> <<"n",".","m","d">>, content |-> F_IL6],
     [name |-> <<"a",".","t","x","t">>, content |-> F_AB]>>}

\* the doc_ids handed to extract_from_collection_files
DocIds == {<<>>, <<(<<"a">>)>>}

\* the texts and the file two matchers are given side by side
PairTexts == {T_IL6, T_ba, T_a_b}

PairFiles == {F_AB}

DefaultConfig ==
  [min_len |-> DefaultMinLen, max_len |-> DefaultMaxLen,
   long_version_max |-> DefaultLongVersionMax, abbrev_exclude |-> {},
   debug |-> FALSE]

\* the configurations a matcher is constructed with
Configs ==
  {DefaultConfig,
   [DefaultConfig EXCEPT !.abbrev_exclude = {W_AB, W_DNA}, !.debug = TRUE],
   [DefaultConfig EXCEPT !.min_len = 3, !.long_version_max = 1]}

RECURSIVE SeqsUpTo(_, _)
\* the sequences over S of length at most n
SeqsUpTo(S, n) ==
  IF n = 0 THEN {<<>>}
  ELSE LET shorter == SeqsUpTo(S, n - 1)
       IN  shorter \cup {Append(t, x) : t \in shorter, x \in S}

\* the candidates handed to prefilter_candidate on its own
CandInputs == SeqsUpTo({"A", "b", "=", "1", " "}, MaxCandLen)

\* the configurations prefilter_candidate is tried under
CandConfigs ==
  {[DefaultConfig EXCEPT !.min_len = lo, !.max_len = hi, !.abbrev_exclude = ex] :
     lo \in {1, DefaultMinLen}, hi \in {2, DefaultMaxLen},
     ex \in {{}, {<<"A","b">>, <<"A">>}}}

\* "b" followed by n - 1 times "a"
Padded(n) == [i \in 1..n |-> IF i = 1 THEN "b" ELSE "a"]

\* the long versions handed to prefilter_long_version on its own
LongInputs ==
  SeqsUpTo({"a", "B", " ", ".", ","}, MaxLongLen)
    \cup {Padded(n) : n \in (LongVersionMaxChars - 1)..(LongVersionMaxChars + MaxOver)}

\* the abbreviations handed to prefilter_long_version on its own
AbbrevInputs == {W_AB, <<"b">>, <<"A",".">>}

\* calls run one loop iteration at a time on one matcher
MaxRuns == 1

\* calls made on two matchers side by side
MaxPairCalls == 3

\* longest list of long versions handed to filter_long_version_list on its
\* own
MaxListLen == 3

W_BRCA1 == <<"B","R","C","A","1">>

\* "BRCA1 gene"
L_BRCA1_gene == W_BRCA1 \o <<" ","g","e","n","e">>

\* long versions the abbreviation "AB" can be recorded with: "ba", "Ba",
\* "a b", "b,a", "bagene", "ba gene", "bangene"
LongFormsAB ==
  {<<"b","a">>, <<"B","a">>, <<"a"," ","b">>, <<"b",",","a">>,
   <<"b","a","g","e","n","e">>, <<"b","a"," ","g","e","n","e">>,
   <<"b","a","n","g","e","n","e">>}

\* the lists of long versions and the abbreviations handed to
\* filter_long_version_list and to the resolution step of replace_abbrevs
ResolveInputs ==
  {<<l, W_AB>> : l \in SeqsUpTo(LongFormsAB, MaxListLen) \ {<<>>}}
    \cup {<<(<<L_BRCA1_gene, W_BRCA1>>), W_BRCA1>>}

\* most filler tokens between the first and the last token before a bracket
MaxFill == 9

\* the first token of a text handed to the token walk: "ax", "\"ax", "and",
\* "x", "" (the text starts with a blank) and ","
FarTokens ==
  {<<"a","x">>, <<"\"","a","x">>, <<"a","n","d">>, <<"x">>, <<>>, <<",">>}

\* what follows the first token: nothing or "and"
MidTokens == {<<>>, <<(<<"a","n","d">>)>>}

\* the token right before the bracket: "ba", "axb" and "ba,"
NearTokens == {<<"b","a">>, <<"a","x","b">>, <<"b","a",",">>}

\* n tokens "x"
Fill(n) == [i \in 1..n |-> <<"x">>]

\* the tokens far, mid, n fillers and near, a blank between each two, and
\* " (AB)." after them
WalkText(far, mid, n, near) ==
  Join(<<" ">>, <<far>> \o mid \o Fill(n) \o <<near>>)
    \o <<" ","(">> \o W_AB \o <<")",".">>

\* the texts handed to match_abbrevs and replace_abbrevs for the token walk
WalkTexts ==
  {WalkText(far, mid, n, near) :
     far \in FarTokens, mid \in MidTokens, n \in 0..MaxFill, near \in NearTokens}

\* the configurations the token walk is tried under
WalkConfigs ==
  {[DefaultConfig EXCEPT !.long_version_max = n] :
     n \in {1, DefaultLongVersionMax, DefaultLongVersionMax + 2}}

\* longest text between the parentheses of a bracket handed to the candidate
\* derivation on its own
MaxInnerLen == 3

\* a character that is neither \w nor whitespace nor in string.punctuation:
\* the degree sign
Degree == "U+00B0"

\* the characters after the closing parenthesis
Trailers == {" ", ".", ")", "\n", Degree}

\* the texts handed to finditer for the candidate derivation: a bracket,
\* with or without a blank before it, and one character after it
BracketTexts ==
  {lead \o <<"(">> \o inner \o <<")", trail>> :
     lead \in {<<>>, <<" ">>},
     inner \in SeqsUpTo({"A", "b", ".", " "}, MaxInnerLen) \ {<<>>},
     trail \in Trailers}

(***************************************************************************)
(* The matcher as a state machine                                           *)
(***************************************************************************)
NoCall ==
  [op |-> "init", arg |-> <<>>, ret |-> <<>>, exc |-> "", printed |-> <<>>,
   before |-> <<>>]

\* a second matcher as __init__ leaves it, dropped being the index the first
\* one held when it was last cleared
Constructed(c, dropped) ==
  [on |-> TRUE, cfg |-> c, data |-> <<>>, ret |-> None, exc |-> "",
   printed |-> <<>>, dropped |-> dropped]

\* no second matcher
NoTwin == [Constructed(DefaultConfig, <<>>) EXCEPT !.on = FALSE]

\* no call in progress.  Of a call in progress: pc is where it stands, op
\* and text what was called with what, before the index it found, from the
\* position the scan for brackets resumes at, upto the end of the match at
\* hand, abbrev its candidate, rev the reversed tokens before it, pos and ex
\* the position and the ex_list of the token walk, i the entry of the index
\* substitution has come to and out the string it has made so far
NoRun ==
  [pc |-> "idle", op |-> "", text |-> <<>>, before |-> <<>>, from |-> 0,
   upto |-> 0, abbrev |-> <<>>, rev |-> <<>>, pos |-> 0, ex |-> <<>>,
   i |-> 0, out |-> <<>>]

\* __init__, with one of configs
Constructing(configs) ==
  /\ cfg \in configs
  /\ data = <<>>
  /\ call = NoCall
  /\ ncalls = 0
  /\ run = NoRun

\* one matcher, constructed with one of configs
InitWith(configs) ==
  /\ Constructing(configs)
  /\ twin = NoTwin

Init == InitWith(Configs)

\* the call op(arg) made on the matcher, with the outcome out
Made(op, arg, out) ==
  /\ data' = out.data
  /\ call' = [op |-> op, arg |-> arg, ret |-> out.ret, exc |-> out.exc,
              printed |-> out.printed, before |-> data]
  /\ ncalls' = ncalls + 1
  /\ UNCHANGED cfg

\* match_abbrevs(text_string), text_string from texts
MatchAbbrevsOn(texts) ==
  \E text_string \in texts :
    Made("match_abbrevs", text_string, MatchCall(cfg, data, text_string))

\* replace_abbrevs(instring), instring from texts
ReplaceAbbrevsOn(texts) ==
  \E instring \in texts :
    Made("replace_abbrevs", instring, ReplaceCall(cfg, data, instring))

\* extract_from_file(file_path), the file holding one of files
ExtractFromFileOn(files) ==
  \E content \in files :
    Made("extract_from_file", content, ExtractCall(cfg, data, content))

\* clear_cache() on the matcher
ClearCacheCall == Made("clear_cache", <<>>, ClearCall(cfg, data))

\* match_abbrevs(text_string)
MatchAbbrevs ==
  /\ ncalls < MaxCalls
  /\ MatchAbbrevsOn(Texts \cup {None})
  /\ UNCHANGED <<twin, run>>

\* replace_abbrevs(instring)
ReplaceAbbrevs ==
  /\ ncalls < MaxCalls
  /\ ReplaceAbbrevsOn(Texts \cup {None})
  /\ UNCHANGED <<twin, run>>

\* extract_from_file(file_path)
ExtractFromFile ==
  /\ ncalls < MaxCalls
  /\ ExtractFromFileOn(Files)
  /\ UNCHANGED <<twin, run>>

\* extract_from_collection_files(in_dir, doc_ids)
ExtractFromCollectionFiles ==
  /\ ncalls < MaxCalls
  /\ \E listing \in Listings, doc_ids \in DocIds :
       Made("extract_from_collection_files", <<listing, doc_ids>>,
            CollectionCall(cfg, data, listing, doc_ids))
  /\ UNCHANGED <<twin, run>>

\* clear_cache()
ClearCache ==
  /\ ncalls < MaxCalls
  /\ ClearCacheCall
  /\ UNCHANGED <<twin, run>>

Next ==
  \/ MatchAbbrevs
  \/ ReplaceAbbrevs
  \/ ExtractFromFile
  \/ ExtractFromCollectionFiles
  \/ ClearCache

Spec == Init /\ [][Next]_vars

\* prefilter_candidate called on its own
PrefilterCandidate ==
  /\ call.op = "init"
  /\ \E abbrev_candidate \in CandInputs :
    /\ call' = [NoCall EXCEPT !.op = "prefilter_candidate",
                              !.arg = abbrev_candidate,
                              !.ret = prefilter_candidate(cfg, abbrev_candidate)]
    /\ UNCHANGED <<cfg, data, ncalls, twin, run>>

\* prefilter_long_version called on its own
PrefilterLongVersion ==
  /\ call.op = "init"
  /\ \E long_version_candidate \in LongInputs, abbrev_candidate \in AbbrevInputs :
    /\ call' = [NoCall EXCEPT !.op = "prefilter_long_version",
                              !.arg = <<long_version_candidate, abbrev_candidate>>,
                              !.ret = prefilter_long_version(long_version_candidate,
                                                             abbrev_candidate)]
    /\ UNCHANGED <<cfg, data, ncalls, twin, run>>

InitFilters == InitWith(CandConfigs)

NextFilters == PrefilterCandidate \/ PrefilterLongVersion

\* the two prefilters applied to inputs of their own
SpecFilters == InitFilters /\ [][NextFilters]_vars

\* filter_long_version_list called on its own
FilterLongVersionList ==
  /\ call.op = "init"
  /\ \E inp \in ResolveInputs :
    /\ call' = [NoCall EXCEPT !.op = "filter_long_version_list",
                              !.arg = inp,
                              !.ret = filter_long_version_list(inp[1], inp[2])]
    /\ UNCHANGED <<cfg, data, ncalls, twin, run>>

\* one iteration of the loop of replace_abbrevs over self.data.items(), up to
\* the choice of the long version to put in
ChooseLongVersion ==
  /\ call.op = "init"
  /\ \E inp \in ResolveInputs :
    /\ call' = [NoCall EXCEPT !.op = "choose_long_version",
                              !.arg = inp,
                              !.ret = Chosen(inp[1], inp[2])]
    /\ UNCHANGED <<cfg, data, ncalls, twin, run>>

NextResolve == FilterLongVersionList \/ ChooseLongVersion

\* the resolution of a list of long versions applied to lists of its own
SpecResolve == Init /\ [][NextResolve]_vars

\* the outcome of the call op(arg) on a matcher with configuration c and
\* index d
CallOutcome(op, c, d, arg) ==
  CASE op = "match_abbrevs" -> MatchCall(c, d, arg)
    [] op = "replace_abbrevs" -> ReplaceCall(c, d, arg)
    [] op = "extract_from_file" -> ExtractCall(c, d, arg)
    [] op = "clear_cache" -> ClearCall(c, d)

\* the second matcher after a call with the outcome out
TwinMade(out) ==
  twin' = [twin EXCEPT !.data = out.data, !.ret = out.ret,
                       !.exc = out.exc, !.printed = out.printed]

\* match_abbrevs(text_string) on both matchers
PairMatchAbbrevs ==
  /\ ncalls < MaxPairCalls
  /\ \E text_string \in PairTexts \cup {None} :
       /\ Made("match_abbrevs", text_string, MatchCall(cfg, data, text_string))
       /\ TwinMade(MatchCall(twin.cfg, twin.data, text_string))
  /\ UNCHANGED run

\* replace_abbrevs(instring) on both matchers
PairReplaceAbbrevs ==
  /\ ncalls < MaxPairCalls
  /\ \E instring \in PairTexts \cup {None} :
       /\ Made("replace_abbrevs", instring, ReplaceCall(cfg, data, instring))
       /\ TwinMade(ReplaceCall(twin.cfg, twin.data, instring))
  /\ UNCHANGED run

\* extract_from_file(file_path) on both matchers
PairExtractFromFile ==
  /\ ncalls < MaxPairCalls
  /\ \E content \in PairFiles :
       /\ Made("extract_from_file", content, ExtractCall(cfg, data, content))
       /\ TwinMade(ExtractCall(twin.cfg, twin.data, content))
  /\ UNCHANGED run

\* clear_cache() on both matchers
PairClearCache ==
  /\ ncalls < MaxPairCalls
  /\ ClearCacheCall
  /\ TwinMade(ClearCall(twin.cfg, twin.data))
  /\ UNCHANGED run

\* clear_cache() on the first matcher, the second one being replaced by a
\* matcher freshly constructed with the configuration of the first
ClearAndConstruct ==
  /\ ncalls < MaxPairCalls
  /\ ClearCacheCall
  /\ twin' = Constructed(cfg, data)
  /\ UNCHANGED run

\* two matchers constructed with configurations that differ in debug only
InitPair ==
  /\ Constructing(Configs)
  /\ twin = Constructed([cfg EXCEPT !.debug = ~cfg.debug], <<>>)

NextPair ==
  \/ PairMatchAbbrevs
  \/ PairReplaceAbbrevs
  \/ PairExtractFromFile
  \/ PairClearCache
  \/ ClearAndConstruct

\* two matchers given the same calls
SpecPair == InitPair /\ [][NextPair]_vars

\* NextPos going back to the first token once, from the third
NextPos_again(pos) == IF pos = 2 THEN 1 ELSE pos + 1

\* enumerate() handing the token walk its next position
NextPos(pos) == pos + 1

\* match_abbrevs(text_string) or replace_abbrevs(instring) is called with a
\* str: finditer is set up at the start of the text
Begin ==
  /\ run.pc \in {"idle", "done"}
  /\ ncalls < MaxRuns
  /\ \E op \in {"match_abbrevs", "replace_abbrevs"}, text_string \in Texts :
       run' = [NoRun EXCEPT !.pc = "scan", !.op = op, !.text = text_string,
                            !.before = data, !.from = 1]
  /\ UNCHANGED <<cfg, data, call, ncalls, twin>>

\* where the next match of bracket_match starts, searching from position
\* from on; 0 if there is none
NextMatch(text, from) ==
  LET starts == {k \in from..Len(text) : MatchEnd(text, k) # 0}
  IN  IF starts = {} THEN 0
      ELSE CHOOSE a \in starts : \A b \in starts : a <= b

\* finditer yields the next match: its candidate is rejected by
\* prefilter_candidate (continue), or the text before it is split and the
\* token walk set up
ScanMatch ==
  /\ run.pc = "scan"
  /\ NextMatch(run.text, run.from) # 0
  /\ run' = LET k == NextMatch(run.text, run.from)
                upto == MatchEnd(run.text, k)
                abbrev_candidate == CandidateOf(SubSeq(run.text, k, upto))
            IN  IF ~prefilter_candidate(cfg, abbrev_candidate)
                  THEN [run EXCEPT !.from = upto + 1]
                  ELSE [run EXCEPT !.pc = "walk", !.from = k, !.upto = upto,
                                   !.abbrev = abbrev_candidate,
                                   !.rev = PreStringList(run.text, k),
                                   !.pos = 0, !.ex = <<>>]
  /\ UNCHANGED <<cfg, data, call, ncalls, twin>>

\* finditer is exhausted: match_abbrevs returns, replace_abbrevs goes on to
\* its loop over self.data.items()
ScanEnd ==
  /\ run.pc = "scan"
  /\ NextMatch(run.text, run.from) = 0
  /\ run' = IF run.op = "replace_abbrevs" /\ data # <<>>
              THEN [run EXCEPT !.pc = "replace", !.i = 1, !.out = run.text]
              ELSE [run EXCEPT !.pc = "return", !.out = run.text]
  /\ UNCHANGED <<cfg, data, call, ncalls, twin>>

\* one iteration of the token walk
WalkStep ==
  /\ run.pc = "walk"
  /\ LET it == WalkIter(cfg, run.rev, run.abbrev[1], run.pos, run.ex)
     IN  run' = IF it.brk \/ NextPos(run.pos) > Len(run.rev) - 1
                  THEN [run EXCEPT !.pc = "record", !.ex = it.ex]
                  ELSE [run EXCEPT !.pos = NextPos(run.pos), !.ex = it.ex]
  /\ UNCHANGED <<cfg, data, call, ncalls, twin>>

\* the end of one iteration of the finditer loop: the long version is joined,
\* filtered and recorded
RecordStep ==
  /\ run.pc = "record"
  /\ data' = IF run.ex = <<>> THEN data
             ELSE IF ~prefilter_long_version(LongVersion(run.ex), run.abbrev)
               THEN data
             ELSE Record(data, run.abbrev, LongVersion(run.ex))
  /\ run' = [run EXCEPT !.pc = "scan", !.from = run.upto + 1]
  /\ UNCHANGED <<cfg, call, ncalls, twin>>

\* NextItem passing over every second entry
NextItem_skip(i) == i + 2

\* the iterator of self.data.items() handing the loop of replace_abbrevs its
\* next entry
NextItem(i) == i + 1

\* one iteration of the loop of replace_abbrevs over self.data.items()
ReplaceStep ==
  /\ run.pc = "replace"
  /\ run' = [run EXCEPT
               !.out = Replace(run.out, data[run.i].abbrev,
                               Chosen(data[run.i].lvs, data[run.i].abbrev)),
               !.i = NextItem(run.i),
               !.pc = IF NextItem(run.i) > Len(data) THEN "return"
                      ELSE "replace"]
  /\ UNCHANGED <<cfg, data, call, ncalls, twin>>

\* the call returns: self.data from match_abbrevs, the string made from
\* replace_abbrevs
Return ==
  /\ run.pc = "return"
  /\ run' = [run EXCEPT !.pc = "done"]
  /\ call' = [op |-> run.op, arg |-> run.text,
              ret |-> IF run.op = "match_abbrevs" THEN data ELSE run.out,
              exc |-> "",
              printed |-> IF run.op = "match_abbrevs" THEN <<>>
                          ELSE Printed(cfg, data),
              before |-> run.before]
  /\ ncalls' = ncalls + 1
  /\ UNCHANGED <<cfg, data, twin>>

\* the steps of a call in progress
Steps ==
  \/ ScanMatch
  \/ ScanEnd
  \/ WalkStep
  \/ RecordStep
  \/ ReplaceStep
  \/ Return

NextSteps == Begin \/ Steps

\* match_abbrevs and replace_abbrevs run one loop iteration at a time
SpecSteps == Init /\ [][NextSteps]_vars

\* match_abbrevs(text_string) or replace_abbrevs(instring) is called once, on
\* a matcher as constructed, with a text made for the token walk
BeginWalk ==
  /\ run.pc = "idle"
  /\ \E op \in {"match_abbrevs", "replace_abbrevs"}, text_string \in WalkTexts :
       run' = [NoRun EXCEPT !.pc = "scan", !.op = op, !.text = text_string,
                            !.before = data, !.from = 1]
  /\ UNCHANGED <<cfg, data, call, ncalls, twin>>

InitWalk == InitWith(WalkConfigs)

NextWalk == BeginWalk \/ Steps

\* the token walk, one iteration at a time, over token lists of every length
\* up to beyond long_version_max
SpecWalk == InitWalk /\ [][NextWalk]_vars

\* the candidates match_abbrevs derives from the matches of bracket_match in
\* text_string, each with the match it is derived from
Candidates(text_string) ==
  LET ms == FindIter(text_string, 1)
  IN  [i \in 1..Len(ms) |->
         [start |-> ms[i][1], end |-> ms[i][2],
          candidate |-> CandidateOf(SubSeq(text_string, ms[i][1], ms[i][2]))]]

\* the head of the finditer loop of match_abbrevs on its own
DeriveCandidates ==
  /\ call.op = "init"
  /\ \E text_string \in BracketTexts :
    /\ call' = [NoCall EXCEPT !.op = "candidates",
                              !.arg = text_string,
                              !.ret = Candidates(text_string)]
    /\ UNCHANGED <<cfg, data, ncalls, twin, run>>

\* the candidate derivation applied to brackets of its own
SpecCandidates == Init /\ [][DeriveCandidates]_vars

(***************************************************************************)
(* Properties                                                               *)
(***************************************************************************)
\* the rejection rules of the Candidate Prefilter, one by one
LengthOutside(c, s) == Len(s) < c.min_len \/ Len(s) > c.max_len

HasEqualsSign(s) == \E i \in DOMAIN s : s[i] = "="

NoAlphabetic(s) == \A i \in DOMAIN s : ~IsAlphaCh(s[i])

EntirelyLowerCase(s) ==
  /\ \E i \in DOMAIN s : IsAlphaCh(s[i])
  /\ \A i \in DOMAIN s : IsAlphaCh(s[i]) => IsLowerCh(s[i])

ShapeRejected(c, s) ==
  \/ LengthOutside(c, s)
  \/ HasEqualsSign(s)
  \/ NoAlphabetic(s)
  \/ EntirelyLowerCase(s)
  \/ s \in c.abbrev_exclude

\* C1: prefilter_candidate returns False exactly when the candidate's length
\* is outside [min_len, max_len], or it contains '=', or it has no alphabetic
\* character, or it is entirely lower-case, or it is in abbrev_exclude; in
\* every other case it returns True.
C1_ShapeFilter ==
  call.op = "prefilter_candidate"
    => call.ret = ~ShapeRejected(cfg, call.arg)

\* a candidate of the longest admitted length that is accepted, under a
\* configuration that excludes something
C1_Witness ==
  /\ call.op = "prefilter_candidate"
  /\ call.ret = TRUE
  /\ Len(call.arg) = cfg.max_len
  /\ cfg.abbrev_exclude # {}

\* a occurs in l as a substring, case-insensitively
OccursCI(a, l) ==
  \E k \in 0..(Len(l) - Len(a)) :
    \A j \in 1..Len(a) : LowerCh(l[k + j]) = LowerCh(a[j])

\* some character of a occurs nowhere in l, case-insensitively
SomeCharAbsentCI(a, l) ==
  \E j \in DOMAIN a : \A i \in DOMAIN l : LowerCh(l[i]) # LowerCh(a[j])

LongFormRejected(l, a) ==
  \/ Len(l) > 50
  \/ \E i \in 1..(Len(l) - 1) : l[i] = " " /\ l[i + 1] = "."
  \/ Cardinality({i \in DOMAIN l : l[i] \in Punctuation}) > 2
  \/ OccursCI(a, l)
  \/ SomeCharAbsentCI(a, l)

\* C2: prefilter_long_version(L, A) returns False exactly when L is longer
\* than 50 characters, or contains space-period, or has more than 2
\* punctuation characters, or contains A case-insensitively, or lacks some
\* character of A (case-insensitive); in every other case it returns True.
C2_LongFormFilter ==
  call.op = "prefilter_long_version"
    => call.ret = ~LongFormRejected(call.arg[1], call.arg[2])

\* a long version of exactly 50 characters that is accepted
C2_Witness ==
  /\ call.op = "prefilter_long_version"
  /\ call.ret = TRUE
  /\ Len(call.arg[1]) = 50

\* C3: every key of the index satisfies the Candidate Prefilter rules, every
\* value list is non-empty, and no string of abbrev_exclude is a key.
C3_IndexInvariant ==
  \A i \in DOMAIN data :
    /\ ~ShapeRejected(cfg, data[i].abbrev)
    /\ data[i].lvs # <<>>
    /\ data[i].abbrev \notin cfg.abbrev_exclude

\* discovery ran on "ba (AB) ob (BO) " with "AB" excluded and recorded "BO"
C3_Witness ==
  /\ call.op = "match_abbrevs"
  /\ call.arg = T_two
  /\ W_AB \in cfg.abbrev_exclude
  /\ data # <<>>

\* C4: for every key A and every long form L stored under it, every
\* character of A occurs in L and A is not a substring of L, both
\* case-insensitively.
C4_Containment ==
  \A i \in DOMAIN data :
    \A k \in DOMAIN data[i].lvs :
      /\ ~SomeCharAbsentCI(data[i].abbrev, data[i].lvs[k])
      /\ ~OccursCI(data[i].abbrev, data[i].lvs[k])

\* discovery ran on "and acid (DNA)." with "DNA" a candidate of admitted
\* shape, and the index holds two keys
C4_Witness ==
  /\ call.op = "match_abbrevs"
  /\ call.arg = T_DNA
  /\ ~ShapeRejected(cfg, W_DNA)
  /\ Len(data) >= 2

\* the token right before the bracketed form of the match m of text, as it
\* reads once it is a long version of its own
TokenBefore(text, m) ==
  LET toks == SplitOn(SubSeq(text, 1, m[1] - 1), Whitespace \cup {"/", "-"})
  IN  Strip(toks[Len(toks)], Punctuation)

\* l, recorded under a by discovery on text, is anchored
Anchored(a, l, text) ==
  \/ \E t \in SetOf(SplitWs(l)) : LowerCh(t[1]) = LowerCh(a[1])
  \/ \E m \in SetOf(FindIter(text, 1)) :
       /\ CandidateOf(SubSeq(text, m[1], m[2])) = a
       /\ l = TokenBefore(text, m)

\* C5: every long form L recorded by discovery under A has a token whose
\* first character is the first character of A (case-insensitive), or is
\* only the single token right before the bracketed form.
C5_AnchorProperty ==
  (call.op = "match_abbrevs" /\ call.before = <<>>)
    => \A i \in DOMAIN data :
         \A k \in DOMAIN data[i].lvs :
           Anchored(data[i].abbrev, data[i].lvs[k], call.arg)

\* d0 is kept by d1: same keys in the same order first, each list extended
Extends(d0, d1) ==
  /\ Len(d0) <= Len(d1)
  /\ \A i \in DOMAIN d0 :
       /\ d1[i].abbrev = d0[i].abbrev
       /\ Len(d0[i].lvs) <= Len(d1[i].lvs)
       /\ SubSeq(d1[i].lvs, 1, Len(d0[i].lvs)) = d0[i].lvs

\* what d1 holds beyond d0: per key, the long forms appended
Added(d0, d1) ==
  {<<d1[i].abbrev,
     SubSeq(d1[i].lvs,
            (IF i <= Len(d0) THEN Len(d0[i].lvs) ELSE 0) + 1,
            Len(d1[i].lvs))>> : i \in DOMAIN d1}
    \ {<<d1[i].abbrev, <<>>>> : i \in DOMAIN d1}

C6_Step ==
  /\ call'.op \in {"match_abbrevs", "replace_abbrevs", "extract_from_file"}
       => Extends(data, data')
  /\ (/\ call.op = "match_abbrevs"
      /\ call'.op = "match_abbrevs"
      /\ call'.arg = call.arg)
       => Added(data, data') = Added(call.before, data)

\* C6: a discovery call keeps every key and every list it found, only
\* appending; discovery run again on the same text appends the same long
\* forms once more.
C6_AppendOnly == [][C6_Step]_vars

\* discovery ran twice on one text and the second run appended a duplicate
C6_Witness ==
  /\ call.op = "match_abbrevs"
  /\ call.before # <<>>
  /\ match_abbrevs(cfg, <<>>, call.arg) = call.before
  /\ \E i \in DOMAIN data :
       /\ Len(data[i].lvs) = 2
       /\ data[i].lvs[1] = data[i].lvs[2]

\* "Interleukin 6"
L_Interleukin6 == W_Interleukin \o <<" ", "6">>

\* C7: on a fresh matcher with the default configuration, discovery on
\* "Interleukin 6 (IL6) is elevated." yields {"IL6": ["Interleukin 6"]}.
C7_BasicExtraction ==
  (/\ cfg = DefaultConfig
   /\ call.op = "match_abbrevs"
   /\ call.before = <<>>
   /\ call.arg = T_IL6)
    => data = <<[abbrev |-> W_IL6, lvs |-> <<L_Interleukin6>>]>>

C7_Witness ==
  /\ cfg = DefaultConfig
  /\ call.op = "match_abbrevs"
  /\ call.before = <<>>
  /\ call.arg = T_IL6
  /\ Len(data) = 1

RECURSIVE Flatten(_)
\* the pieces, concatenated
Flatten(pieces) ==
  IF pieces = <<>> THEN <<>> ELSE Head(pieces) \o Flatten(Tail(pieces))

\* where old occurs in s
Occurrences(s, old) ==
  {i \in 1..(Len(s) - Len(old) + 1) : SubSeq(s, i, i + Len(old) - 1) = old}

\* s with every occurrence of old replaced by new and nothing else changed,
\* for an old no two occurrences of which overlap
LiteralReplaceAll(s, old, new) ==
  LET occ == Occurrences(s, old)
  IN  Flatten([j \in 1..Len(s) |->
                 IF j \in occ THEN new
                 ELSE IF \E i \in occ : i < j /\ j < i + Len(old) THEN <<>>
                 ELSE <<s[j]>>])

RECURSIVE LiteralPasses(_, _, _, _)
\* s after one literal replace-all per key of d from entry i on, in index
\* order, picks[i] being the long form put in for d[i].abbrev
LiteralPasses(d, picks, s, i) ==
  IF i > Len(d) THEN s
  ELSE LiteralPasses(d, picks, LiteralReplaceAll(s, d[i].abbrev, picks[i]), i + 1)

\* the long form substitution resolves each key of d to
Resolved(d) == [i \in DOMAIN d |-> Chosen(d[i].lvs, d[i].abbrev)]

\* "Interleukin 6 (Interleukin 6) is elevated."
T_IL6_replaced ==
  L_Interleukin6 \o <<" ", "(">> \o L_Interleukin6 \o <<")">> \o W_is_elevated

\* C8: on a fresh matcher replace_abbrevs returns the text with every
\* literal occurrence of each resolved abbreviation (bracketed or inside a
\* longer word) replaced by its resolved long form and nothing else changed;
\* "Interleukin 6 (IL6) is elevated." becomes
\* "Interleukin 6 (Interleukin 6) is elevated.".
C8_LiteralReplaceAll ==
  (call.op = "replace_abbrevs" /\ call.arg # None /\ call.before = <<>>)
    => /\ call.ret = LiteralPasses(data, Resolved(data), call.arg, 1)
       /\ (cfg = DefaultConfig /\ call.arg = T_IL6)
            => call.ret = T_IL6_replaced

\* a fresh matcher replaced two occurrences of a key, one inside a word
C8_Witness ==
  /\ call.op = "replace_abbrevs"
  /\ call.before = <<>>
  /\ call.arg = T_il6
  /\ Len(data) = 1
  /\ Cardinality(Occurrences(call.arg, data[1].abbrev)) = 2
  /\ Occurrences(call.ret, data[1].abbrev) = {}

\* the keys of an index
Keys(d) == {d[i].abbrev : i \in DOMAIN d}

\* C9 as stated: an abbreviation that occurs in the text of a replace_abbrevs
\* call but was not discovered in that text is left unchanged in the output.
C9_OnlyThisText ==
  (call.op = "replace_abbrevs" /\ call.arg # None)
    => \A a \in Keys(data) \ Keys(match_abbrevs(cfg, <<>>, call.arg)) :
         Occurrences(call.arg, a) # {} => Occurrences(call.ret, a) # {}

\* C9, amended: a replace_abbrevs call replaces the keys of the whole index
\* as it is after the call's own discovery, in index order: those discovered
\* in this text and those discovered by earlier calls since construction or
\* the last clear_cache; a text none of them occurs in is returned as it is.
C9_WholeIndex ==
  (call.op = "replace_abbrevs" /\ call.arg # None)
    => /\ Extends(call.before, data)
       /\ call.ret = LiteralPasses(data, Resolved(data), call.arg, 1)
       /\ (\A a \in Keys(data) : Occurrences(call.arg, a) = {})
            => call.ret = call.arg

\* a key discovered by an earlier call only was replaced in "AB x"
C9_Witness ==
  /\ call.op = "replace_abbrevs"
  /\ call.arg = T_AB_x
  /\ W_AB \in Keys(call.before)
  /\ match_abbrevs(cfg, <<>>, call.arg) = <<>>
  /\ call.ret # call.arg

\* all long forms are the same, case-insensitively
AllSameCI(lvs) == \A i, j \in DOMAIN lvs : Lower(lvs[i]) = Lower(lvs[j])

\* the first-seen long form for a merged key, what substitution resolves to
\* for any other
FirstSeenIfMerged(d) ==
  [i \in DOMAIN d |->
     IF AllSameCI(d[i].lvs) THEN d[i].lvs[1] ELSE Chosen(d[i].lvs, d[i].abbrev)]

\* C10: when all long forms of an abbreviation are identical
\* case-insensitively, resolution returns the first-seen one alone and
\* substitution puts that one in.
C10_MergeRule ==
  (call.op = "replace_abbrevs" /\ call.arg # None)
    => /\ \A i \in DOMAIN data :
            AllSameCI(data[i].lvs)
              => filter_long_version_list(data[i].lvs, data[i].abbrev)
                   = <<data[i].lvs[1]>>
       /\ call.ret = LiteralPasses(data, FirstSeenIfMerged(data), call.arg, 1)

\* "IL6" with the long forms "Interleukin 6" and "interleukin 6", and the
\* first put in for it
C10_Witness ==
  /\ call.op = "replace_abbrevs"
  /\ data = <<[abbrev |-> W_IL6,
               lvs |-> <<L_Interleukin6, W_interleukin \o <<" ", "6">>>>]>>
  /\ call.arg = T_il6
  /\ call.ret = LiteralReplaceAll(T_il6, W_IL6, L_Interleukin6)

\* lv in lower case without a trailing "gene"
GeneStripped(lv) ==
  IF EndsWith(Lower(lv), <<"g","e","n","e">>)
    THEN SubSeq(Lower(lv), 1, Len(lv) - 4)
    ELSE Lower(lv)

\* the long forms differ case-insensitively and are the same once a trailing
\* "gene" is taken off
GeneRuleApplies(lvs) ==
  /\ ~AllSameCI(lvs)
  /\ \A i, j \in DOMAIN lvs : GeneStripped(lvs[i]) = GeneStripped(lvs[j])

\* C11: when the long forms are not identical case-insensitively but are
\* once the trailing "gene" is stripped, resolution returns a variant that
\* does not end with "gene"; resolving ["BRCA1 gene", "BRCA1"] returns
\* "BRCA1".
C11_GeneSuffixRule ==
  call.op = "filter_long_version_list"
    => /\ GeneRuleApplies(call.arg[1])
            => /\ call.ret # <<>>
               /\ \A i \in DOMAIN call.ret :
                    /\ call.ret[i] \in SetOf(call.arg[1])
                    /\ ~EndsWith(Lower(call.ret[i]), <<"g","e","n","e">>)
       /\ call.arg[1] = <<L_BRCA1_gene, W_BRCA1>> => call.ret = <<W_BRCA1>>

\* the initials of the tokens of lv cover every character of abbrev
InitialsCover(lv, abbrev) ==
  \A k \in DOMAIN abbrev :
    \E t \in SetOf(SplitWs(lv)) : LowerCh(t[1]) = LowerCh(abbrev[k])

\* the first long form of lvs whose initials cover abbrev
FirstCovering(lvs, abbrev) ==
  lvs[CHOOSE i \in DOMAIN lvs :
        /\ InitialsCover(lvs[i], abbrev)
        /\ \A j \in 1..(i - 1) : ~InitialsCover(lvs[j], abbrev)]

\* C12: when neither the merge rule nor the gene rule applies and some long
\* form has initials that cover the abbreviation, the resolved result is
\* exactly the first such long form, whatever precedes it, and substitution
\* uses it.
C12_InitialsRule ==
  (/\ call.op \in {"filter_long_version_list", "choose_long_version"}
   /\ ~AllSameCI(call.arg[1])
   /\ ~GeneRuleApplies(call.arg[1])
   /\ \E i \in DOMAIN call.arg[1] : InitialsCover(call.arg[1][i], call.arg[2]))
    => IF call.op = "filter_long_version_list"
         THEN call.ret = <<FirstCovering(call.arg[1], call.arg[2])>>
         ELSE call.ret = FirstCovering(call.arg[1], call.arg[2])

\* no rule before the ambiguity fallback resolves lvs
NoRuleResolves(lvs, abbrev) ==
  /\ ~AllSameCI(lvs)
  /\ ~GeneRuleApplies(lvs)
  /\ \A i \in DOMAIN lvs : ~InitialsCover(lvs[i], abbrev)

\* the punctuation-free long forms of lvs, all of lvs if there are none
Narrowed(lvs) ==
  LET clean == SelectSeq(lvs, LAMBDA lv : \A k \in DOMAIN lv :
                                            lv[k] \notin Punctuation)
  IN  IF clean # <<>> THEN clean ELSE lvs

\* C13: when no earlier rule resolves, the narrowed set is all the
\* punctuation-free long forms, or the whole list if there are none;
\* substitution uses the narrowed candidate if exactly one remains and the
\* first-seen long form of the whole list otherwise, and nothing is raised.
C13_AmbiguityFallback ==
  (/\ call.op \in {"filter_long_version_list", "choose_long_version"}
   /\ NoRuleResolves(call.arg[1], call.arg[2]))
    => /\ call.exc = ""
       /\ IF call.op = "filter_long_version_list"
            THEN call.ret = Narrowed(call.arg[1])
            ELSE call.ret = IF Len(Narrowed(call.arg[1])) = 1
                              THEN Narrowed(call.arg[1])[1]
                              ELSE call.arg[1][1]

\* C14: replace_abbrevs given None or the empty string returns it unchanged
\* and leaves the index unchanged; match_abbrevs given None or the empty
\* string finds no candidate, leaves the index unchanged and does not raise.
C14_AbsentInput ==
  (/\ call.op \in {"match_abbrevs", "replace_abbrevs"}
   /\ call.arg \in {None, T_empty})
    => /\ call.exc = ""
       /\ data = call.before
       /\ call.op = "replace_abbrevs" => call.ret = call.arg

\* C15: clear_cache leaves the index empty and the configuration unchanged,
\* and after any history followed by clear_cache every further sequence of
\* calls gives the index and the outputs it gives on a matcher freshly
\* constructed with the same configuration.
C15_Reset ==
  /\ [][call'.op = "clear_cache" => (data' = <<>> /\ cfg' = cfg)]_ncalls
  /\ [](twin.cfg = cfg
         => /\ twin.exc = call.exc
            /\ twin.data = data
            /\ call.op # "clear_cache" => twin.ret = call.ret)

\* a matcher that held "AB" was cleared, and a call made after that found
\* "IL6" and put its long form in
C15_Witness ==
  /\ twin.cfg = cfg
  /\ twin.dropped # <<>>
  /\ call.op = "replace_abbrevs"
  /\ call.arg = T_IL6
  /\ call.ret = T_IL6_replaced
  /\ Keys(data) = {W_IL6}

\* C16: two matchers that differ in debug only and are given the same calls
\* with the same inputs have identical indexes and return identical values
\* from every call; only what is printed differs.
C16_DebugOnlyPrints ==
  (twin.cfg = [cfg EXCEPT !.debug = ~cfg.debug] /\ call.op # "init")
    => /\ twin.exc = call.exc
       /\ twin.data = data
       /\ twin.ret = call.ret

\* replace_abbrevs with "AB" ambiguous ("ba", "a b"): the matcher under
\* debug printed the key, the other one nothing, and both replaced
C16_Witness ==
  /\ twin.cfg = [cfg EXCEPT !.debug = ~cfg.debug]
  /\ call.op = "replace_abbrevs"
  /\ twin.cfg.debug
  /\ twin.printed = <<W_AB>>
  /\ call.printed = <<>>
  /\ call.ret # call.arg

\* what a call in progress has left to do, in loop iterations at most: the
\* entries substitution still goes through and the return; before that, the
\* text positions the scan for brackets has not passed, each worth more than
\* a token walk, and the tokens the walk at hand has not passed
Remaining(r, d) ==
  LET n == Len(r.text)
      later == 3 + Len(r.before) + n
      each == n + 4
  IN  CASE r.pc = "scan" -> later + (n + 1 - r.from) * each
        [] r.pc = "walk" -> later + (n - r.upto) * each + 1 + Len(r.rev) - r.pos
        [] r.pc = "record" -> later + (n - r.upto) * each + 1
        [] r.pc = "replace" -> 2 + Len(d) - r.i
        [] r.pc = "return" -> 1
        [] OTHER -> 0

\* C17: for every text and configuration match_abbrevs and replace_abbrevs
\* terminate: every loop iteration of a call in progress leaves it less to
\* do, the scan for brackets moving on through the text and each token walk
\* taking one step per token before the bracket at most; a call in progress
\* can always take its next step, and has returned what the call as a whole
\* gives once nothing is left to do.
C17_Termination ==
  /\ [][run.pc \notin {"idle", "done"}
          => /\ Remaining(run', data') < Remaining(run, data)
             /\ run.pc = "scan" => run'.from > run.from \/ run'.pc # "scan"
             /\ (run.pc = "walk" /\ run'.pc = "walk")
                  => run'.pos = run.pos + 1]_<<run, data>>
  /\ [](/\ Remaining(run, data) >= 0
        /\ Remaining(run, data) = 0 <=> run.pc \in {"idle", "done"}
        /\ run.pc = "scan" => run.from \in 1..(Len(run.text) + 1)
        /\ run.pc = "walk" => run.pos \in 0..(Len(run.rev) - 1)
        /\ run.pc = "replace" => run.i \in 1..Len(data))
  /\ [](run.pc = "done"
         => LET out == CallOutcome(call.op, cfg, call.before, call.arg)
            IN  data = out.data /\ call.ret = out.ret)

\* replace_abbrevs("Interleukin 6 (IL6) is elevated.") has walked back two
\* tokens, recorded "IL6" and returned the text with the long form put in
C17_Witness ==
  /\ run.pc = "done"
  /\ run.op = "replace_abbrevs"
  /\ run.text = T_IL6
  /\ run.pos = 1
  /\ Keys(data) = {W_IL6}
  /\ call.ret = T_IL6_replaced

\* the lines of a file: what stands between two line breaks, with the break
\* that ends it, and what follows the last break if anything does
LinesOf(content) ==
  LET pieces == SplitOn(content, {"\n"})
      whole == [i \in 1..(Len(pieces) - 1) |-> Append(pieces[i], "\n")]
  IN  IF pieces[Len(pieces)] = <<>> THEN whole
      ELSE Append(whole, pieces[Len(pieces)])

RECURSIVE DiscoveryOnEach(_, _, _)
\* the index after match_abbrevs on each of texts in turn, from the index d
DiscoveryOnEach(c, d, texts) ==
  IF texts = <<>> THEN d
  ELSE DiscoveryOnEach(c, MatchCall(c, d, texts[1]).data, Tail(texts))

\* C18: extract_from_file returns the index, and its effect on the index is
\* that of discovery on each line of the file in file order on the same
\* matcher: entries accumulate onto what the index held, and no long form
\* spans a line boundary.
C18_FileIsLines ==
  call.op = "extract_from_file"
    => /\ call.exc = ""
       /\ call.ret = data
       /\ data = DiscoveryOnEach(cfg, call.before, LinesOf(call.arg))
       /\ \A i \in DOMAIN data : \A k \in DOMAIN data[i].lvs :
            ~Contains(data[i].lvs[k], <<"\n">>)

\* the file "\nAB x\nba (AB) ob (BO) \n" read into an index that held "IL6":
\* "AB" and "BO" are added with the long forms "ba" and "ba (AB) ob" of
\* their own line
C18_Witness ==
  /\ call.op = "extract_from_file"
  /\ call.arg = F_two
  /\ call.before = <<[abbrev |-> W_IL6, lvs |-> <<L_Interleukin6>>]>>
  /\ data = call.before
             \o <<[abbrev |-> W_AB, lvs |-> <<(<<"b","a">>)>>],
                  [abbrev |-> <<"B","O">>,
                   lvs |-> <<(<<"b","a"," ","(","A","B",")"," ","o","b">>)>>]>>

\* the documents of listing that extract_from_collection_files selects: every
\* ".txt" file when doc_ids is empty, the file doc_id + ".txt" of each given
\* id otherwise
SelectedDocs(listing, doc_ids) ==
  SelectSeq(listing, LAMBDA f :
    IF doc_ids = <<>> THEN EndsWith(f.name, <<".","t","x","t">>)
    ELSE \E i \in DOMAIN doc_ids : f.name = doc_ids[i] \o <<".","t","x","t">>)

RECURSIVE DiscoveryOnDocs(_, _, _)
\* the index after discovery over each of docs in turn, from the index d
DiscoveryOnDocs(c, d, docs) ==
  IF docs = <<>> THEN d
  ELSE DiscoveryOnDocs(c, DiscoveryOnEach(c, d, LinesOf(docs[1].content)),
                       Tail(docs))

\* C19: extract_from_collection_files on a directory with at least one
\* selected document runs discovery over each selected document in turn on
\* the same matcher and returns the index accumulated over all of them,
\* without raising.
C19_CollectionIsSequence ==
  (/\ call.op = "extract_from_collection_files"
   /\ SelectedDocs(call.arg[1], call.arg[2]) # <<>>)
    => /\ call.exc = ""
       /\ data = DiscoveryOnDocs(cfg, call.before,
                                 SelectedDocs(call.arg[1], call.arg[2]))
       /\ call.ret = data

\* the characters the text before a bracket is split on
Delimiters == Whitespace \cup {"/", "-"}

\* position i of text lies in a run of delimiters that stands between two
\* words
BetweenWords(text, i) ==
  /\ \E j \in 1..(i - 1) :
       IsWordCh(text[j]) /\ \A k \in (j + 1)..i : text[k] \in Delimiters
  /\ \E j \in (i + 1)..Len(text) :
       IsWordCh(text[j]) /\ \A k \in i..(j - 1) : text[k] \in Delimiters

\* text with every run of delimiters between two words cut down to its
\* first delimiter
Squeezed(text) ==
  LET kept == SelectSeq([i \in 1..Len(text) |-> i],
                        LAMBDA i : ~(/\ i > 1
                                     /\ text[i - 1] \in Delimiters
                                     /\ BetweenWords(text, i)))
  IN  [j \in 1..Len(kept) |-> text[kept[j]]]

\* no token of toks is empty with a non-empty token on either side
NoEmptyTokenBetweenWords(toks) ==
  \A i \in DOMAIN toks :
    toks[i] = <<>>
      => \/ \A j \in 1..(i - 1) : toks[j] = <<>>
         \/ \A j \in (i + 1)..Len(toks) : toks[j] = <<>>

\* C20: the text before the match is split on runs of whitespace, "/" or
\* "-", so that consecutive delimiters leave no empty token between two
\* words and pos counts words; a text and the same text with fewer
\* consecutive delimiters between its words yield the same long forms.
C20_Tokenization ==
  (call.op = "match_abbrevs" /\ call.arg # None /\ call.before = <<>>)
    => /\ \A k \in 1..Len(call.arg) :
            MatchEnd(call.arg, k) # 0
              => NoEmptyTokenBetweenWords(PreStringList(call.arg, k))
       /\ data = match_abbrevs(cfg, <<>>, Squeezed(call.arg))

\* the token the walk of the call in progress r examines
TokenAt(r) == r.rev[r.pos + 1]

\* the last index of the reversed token list of r
LastIndex(r) == Len(r.rev) - 1

\* w, stripped of punctuation, starts with the anchor character of r
StartsWithAnchor(r, w) ==
  LET stripped == Strip(w, Punctuation)
  IN  stripped # <<>> /\ LowerCh(stripped[1]) = LowerCh(r.abbrev[1])

\* the first character of the token at pos 0 is the anchor character of r
FirstBeforeIsAnchor(r) ==
  r.rev[1] # <<>> /\ LowerCh(r.rev[1][1]) = LowerCh(r.abbrev[1])

\* the lower-cased form of w is "and" or "also"
IsStopword(w) == Lower(w) \in {<<"a","n","d">>, <<"a","l","s","o">>}

\* the walk of r examines a token the eight-token fallback applies to
AtFallback(r) == r.pos >= 7 /\ FirstBeforeIsAnchor(r)

\* C21: at a position pos >= 1 whose punctuation-stripped token starts with
\* the anchor character, the token is appended and the walk stops, unless
\* the token is "and" or "also": then it is appended once and the walk
\* continues (where neither the eight-token fallback nor the end of the list
\* takes over).  The reconstructed span is a contiguous run of the preceding
\* tokens, each of them exactly once.
C21_AnchorStop ==
  /\ [][(run.pc = "walk" /\ run.pos >= 1 /\ StartsWithAnchor(run, TokenAt(run)))
          => IF ~IsStopword(TokenAt(run))
               THEN /\ run'.ex = Append(run.ex, TokenAt(run))
                    /\ run'.pc = "record"
               ELSE (~AtFallback(run) /\ run.pos < LastIndex(run))
                      => /\ run'.ex = Append(run.ex, TokenAt(run))
                         /\ run'.pc = "walk"
                         /\ run'.pos = run.pos + 1]_run
  /\ []((run.pc = "record" /\ run.ex # <<>>)
          => run.ex = SubSeq(run.rev, 1, Len(run.ex)))

C23_EndOfList ==
  [][(run.pc = "walk" /\ run.pos = LastIndex(run) /\ run.pos >= 1
        /\ ~(StartsWithAnchor(run, TokenAt(run)) /\ ~IsStopword(TokenAt(run)))
        /\ ~AtFallback(run))
       => /\ run'.pc = "record"
          /\ run'.ex = IF run.pos <= cfg.long_version_max
                         THEN <<run.rev[1]>> ELSE <<>>]_run

\* the greatest reversed position a long form may take a token from
LookBack(c) == IF c.long_version_max > 7 THEN c.long_version_max ELSE 7

\* the tokens of r at the reversed positions 0..LookBack(c)
Window(c, r) ==
  SetOf(SubSeq(r.rev, 1,
               IF Len(r.rev) < LookBack(c) + 1 THEN Len(r.rev)
               ELSE LookBack(c) + 1))

\* C24: however many tokens precede the candidate, the reconstructed long
\* form holds no token from a reversed position greater than
\* max(7, long_version_max): it is built from the nearest
\* max(8, long_version_max + 1) preceding tokens at most.
C24_BoundedLookBack ==
  (run.pc = "record" /\ run.ex # <<>>) => SetOf(run.ex) \subseteq Window(cfg, run)

\* the tokens of ex_list in reading order with one blank between each two
SpacedInReadingOrder(ex_list) ==
  Flatten([k \in 1..(2 * Len(ex_list) - 1) |->
             IF k % 2 = 1 THEN ex_list[Len(ex_list) + 1 - (k + 1) \div 2]
             ELSE <<" ">>])

\* l is s without the punctuation characters it ends with, and nothing else
\* is removed
TrailingStripped(l, s) ==
  /\ Len(l) <= Len(s)
  /\ l = SubSeq(s, 1, Len(l))
  /\ \A k \in (Len(l) + 1)..Len(s) : s[k] \in Punctuation
  /\ l # <<>> => l[Len(l)] \notin Punctuation

\* l is s without the punctuation characters it starts and ends with, and
\* nothing else is removed
BothEndsStripped(l, s) ==
  \E i \in 1..(Len(s) + 1) :
    /\ \A k \in 1..(i - 1) : s[k] \in Punctuation
    /\ i <= Len(s) => s[i] \notin Punctuation
    /\ TrailingStripped(l, SubSeq(s, i, Len(s)))

\* the step from r, d to d1 hands a long-form candidate l that Is the
\* assembly of the accumulated tokens to the long-form prefilter, and
\* records it if it passes
HandsOver(r, d, d1, Is(_, _)) ==
  \E n \in 0..Len(SpacedInReadingOrder(r.ex)) :
    \E i \in 1..(Len(SpacedInReadingOrder(r.ex)) + 1 - n) :
      LET l == SubSeq(SpacedInReadingOrder(r.ex), i, i + n - 1)
      IN  /\ Is(l, SpacedInReadingOrder(r.ex))
          /\ d1 = IF prefilter_long_version(l, r.abbrev)
                     THEN Record(d, r.abbrev, l) ELSE d

\* C25 as stated: when tokens remain accumulated, the long-form candidate
\* handed to the long-form prefilter is the accumulated tokens in reading
\* order, joined by single blanks, with the punctuation at its end stripped
\* and no other character removed: the leading characters of the first
\* token stay.
C25_TrailingOnly ==
  [][(run.pc = "record" /\ run.ex # <<>>)
       => HandsOver(run, data, data', TrailingStripped)]_<<run, data>>

\* C25, amended: the candidate is the accumulated tokens in reading order,
\* joined by single blanks, with the punctuation at its start and at its end
\* stripped and no other character removed.
C25_BothEnds ==
  [][(run.pc = "record" /\ run.ex # <<>>)
       => HandsOver(run, data, data', BothEndsStripped)]_<<run, data>>

\* "ax ba" was recorded from the tokens "\"ax" and "ba,": the quotation mark
\* the first token starts with and the comma the last one ends with are gone
C25_Witness ==
  /\ run.pc = "scan"
  /\ run.ex = <<(<<"b","a",",">>), (<<"\"","a","x">>)>>
  /\ data = <<[abbrev |-> W_AB, lvs |-> <<(<<"a","x"," ","b","a">>)>>]>>

\* where the opening parenthesis of the match m of text stands
OpenAt(text, m) == IF text[m.start] = "(" THEN m.start ELSE m.start + 1

\* the characters strictly between the parentheses of the match m of text
Between(text, m) == SubSeq(text, OpenAt(text, m) + 1, m.end - 2)

\* p is s or what s starts with
IsPrefix(p, s) == Len(p) <= Len(s) /\ p = SubSeq(s, 1, Len(p))

\* C26: for every match of the bracket pattern, the candidate handed to the
\* prefilter is a (possibly empty) prefix of the characters strictly between
\* the two parentheses: it holds no parenthesis and not the non-word
\* character after the closing parenthesis, whatever that character is.
C26_CandidateDerivation ==
  call.op = "candidates"
    => \A k \in DOMAIN call.ret :
         /\ IsPrefix(call.ret[k].candidate, Between(call.arg, call.ret[k]))
         /\ \A j \in DOMAIN call.ret[k].candidate :
              call.ret[k].candidate[j] \notin {"(", ")"}

\* "bbx oa (bbx oa) bx o (bx o)."
T_AB_BO_replaced ==
  <<"b","b","x"," ","o","a"," ","(","b","b","x"," ","o","a",")"," ",
    "b","x"," ","o"," ","(","b","x"," ","o",")",".">>

\* "bx o (bx o) bbx oa (bBOa)."
T_BO_AB_replaced ==
  <<"b","x"," ","o"," ","(","b","x"," ","o",")"," ",
    "b","b","x"," ","o","a"," ","(","b","B","O","a",")",".">>

\* C27: replace_abbrevs processes each abbreviation of the index exactly
\* once, in the order of the index (first-inserted key first), each pass on
\* the text the pass before it has made: what an earlier abbreviation put in
\* is replaced by a later one ("bBOa (AB) bx o (BO)." loses the "BO" that
\* came in with "bBOa"), never the other way round ("bx o (BO) bBOa (AB)."
\* keeps it).
C27_SubstitutionOrder ==
  /\ [][run.pc = "replace"
          => /\ run'.out = LiteralReplaceAll(run.out, data[run.i].abbrev,
                                           Resolved(data)[run.i])
             /\ run'.i = run.i + 1
             /\ data' = data
             /\ run'.pc = IF run.i = Len(data) THEN "return" ELSE "replace"]_<<run, data>>
  /\ [](run.pc = "replace"
          => /\ run.i \in 1..Len(data)
             /\ run.i = 1 => run.out = run.text)
  /\ []((run.pc \in {"return", "done"} /\ run.op = "replace_abbrevs")
          => /\ data # <<>> => run.i = Len(data) + 1
             /\ (cfg = DefaultConfig /\ run.before = <<>>)
                  => /\ run.text = T_AB_BO => run.out = T_AB_BO_replaced
                     /\ run.text = T_BO_AB => run.out = T_BO_AB_replaced)

\* both keys of "bBOa (AB) bx o (BO)." were replaced, "AB" first: the long
\* form put in for it holds "BO", and no "BO" is left
C27_Witness ==
  /\ run.pc = "done"
  /\ run.op = "replace_abbrevs"
  /\ run.text = T_AB_BO
  /\ Len(data) = 2
  /\ data[1].abbrev = W_AB
  /\ Contains(Resolved(data)[1], data[2].abbrev)
  /\ Occurrences(run.out, data[2].abbrev) = {}

\* a is b with some of its elements left out, the others in the order of b
IsSubsequence(a, b) ==
  \E f \in [DOMAIN a -> DOMAIN b] :
    /\ \A j, k \in DOMAIN a : j < k => f[j] < f[k]
    /\ \A k \in DOMAIN a : a[k] = b[f[k]]

\* C28: for a non-empty list of long forms and any abbreviation,
\* filter_long_version_list returns a non-empty list whose elements are
\* members of the list it was given, in first-seen order.
C28_ResolutionWellFormed ==
  (call.op = "filter_long_version_list" /\ call.arg[1] # <<>>)
    => /\ call.ret # <<>>
       /\ IsSubsequence(call.ret, call.arg[1])

\* C29: the string replace_abbrevs returns holds no literal occurrence of
\* any key the index has when the call returns: every abbreviation is
\* expanded everywhere, and no replacement brings back an abbreviation
\* that was processed already.
C29_SubstitutionComplete ==
  (call.op = "replace_abbrevs" /\ call.arg # None)
    => \A a \in Keys(data) : Occurrences(call.ret, a) = {}

====
